---- MODULE Spec2Model ----
(***************************************************************************)
(* Model of openhiven.py's gateway session engine:                         *)
(*   - openhivenpy/events/__init__.py : the listener registry and the      *)
(*     dispatcher (HivenEventHandler, Single/MultiDispatchEventListener)   *)
(*   - openhivenpy/gateway/websocket.py : the read loop and the            *)
(*     initialisation handshake (HivenWebSocket)                           *)
(*                                                                         *)
(* Spec   : the event handler driven by its callers (registration,         *)
(*          removal, dispatch, wait_for), with asyncio's task level        *)
(*          interleaving of the listener coroutines.                       *)
(* SpecWS : the websocket read loop driven by the transport's messages.    *)
(***************************************************************************)
EXTENDS Integers, Sequences, FiniteSets, TLC

(***************************************************************************)
(* Bounds of the model.                                                    *)
(***************************************************************************)
MaxListeners == 2      \* listener objects constructed
MaxDispatch  == 2      \* calls of HivenEventHandler.dispatch
MaxFrames    == 6      \* transport messages received by the read loop
MaxHouses    == 2      \* house ids, and the largest manifest
MaxRuns      == 2      \* calls of KeepAlive.run
MaxSends     == 3      \* heartbeat send tasks created

VARIABLES
    listeners,          \* every listener object constructed so far (index = identity)
    active_listeners,   \* HivenEventHandler._active_listeners: event name -> list
    dispatches,         \* the calls of HivenEventHandler.dispatch, with their gather tasks
    waiters,            \* the calls of HivenEventHandler.wait_for
    lastCall,           \* the exception of the last registry call ("None": it returned)
    unregistered,       \* listeners on which remove_listener was called
    open,               \* HivenWebSocket._open
    ready,              \* HivenWebSocket._ready
    connection_start,   \* HivenWebSocket._connection_start is set
    houses,             \* client.storage['houses']
    stack,              \* the active received_init calls of the read loop, outermost first
    loop,               \* listening_loop: "running" or the error that ended it
    nrecv,              \* messages the transport delivered so far
    handled,            \* calls of received_message, in order
    delivered,          \* calls of parsers.dispatch, in order
    notified,           \* calls of client.call_listeners, in order
    active,             \* KeepAlive._active
    task,               \* KeepAlive._task: the index of a heartbeat send task, 0 for None
    runs,               \* the calls of KeepAlive.run, each with its position
    sends,              \* the heartbeat send tasks created by the loops
    stopped,            \* KeepAlive.stop has returned and run was not called since
    auth                \* the call of HivenWebSocket.send_auth: its write and result

evars == <<listeners, active_listeners, dispatches, waiters, lastCall, unregistered>>
wvars == <<open, ready, connection_start, houses, stack, loop, nrecv,
           handled, delivered, notified>>
kvars == <<active, task, runs, sends, stopped, auth>>
vars  == <<listeners, active_listeners, dispatches, waiters, lastCall, unregistered,
           open, ready, connection_start, houses, stack, loop, nrecv,
           handled, delivered, notified, active, task, runs, sends, stopped, auth>>

(***************************************************************************)
(* Event names.  A name is the sequence of the pieces of its string split  *)
(* at every occurrence of "on_" (the "on_" pieces kept), so that           *)
(* str.replace('on_', '') can be computed: 'connection_start' is           *)
(* <<"connecti", "on_", "start">>.                                         *)
(***************************************************************************)
RECURSIVE Joined(_)
Joined(s) ==
    IF s = <<>> THEN ""
    ELSE IF Head(s) = "on_" THEN Joined(Tail(s))
    ELSE Head(s) \o Joined(Tail(s))

\* event_name.replace('on_', ''): every occurrence is deleted, not only a prefix
Replace(name) ==
    IF \A i \in 1..Len(name) : name[i] = "on_" THEN <<>> ELSE <<Joined(name)>>

\* HivenEventHandler._events ('house_entity_update' 'relationship_update' is one
\* string: the list has no comma between the two literals)
events ==
    { <<"connecti", "on_", "start">>, <<"init">>, <<"ready">>, <<"user_update">>,
      <<"house_join">>, <<"house_remove">>, <<"house_update">>, <<"house_delete">>,
      <<"house_downtime">>,
      <<"room_create">>, <<"room_update">>, <<"room_delete">>,
      <<"house_member_join">>, <<"house_member_leave">>, <<"house_member_enter">>,
      <<"house_member_exit">>, <<"member_update">>,
      <<"house_member_chunk">>, <<"batch_house_member_update">>,
      <<"house_entity_updaterelationship_update">>,
      <<"presence_update">>,
      <<"message_create">>, <<"message_update">>, <<"message_delete">>,
      <<"typing_start">> }

(***************************************************************************)
(* The registry: a dict from event name to a list of listeners.            *)
(***************************************************************************)
\* dict.get(name) is truthy: the key is present and its list is not empty
Truthy(al, name) == name \in DOMAIN al /\ al[name] # <<>>

Put(al, name, list) ==
    [k \in DOMAIN al \cup {name} |-> IF k = name THEN list ELSE al[k]]

InList(list, l) == \E i \in 1..Len(list) : list[i] = l

\* a variant that also drops every listener behind the removed one
RemoveFirst_truncating(list, l) ==
    LET i == CHOOSE j \in 1..Len(list) :
                 list[j] = l /\ \A k \in 1..(j - 1) : list[k] # l
    IN  SubSeq(list, 1, i - 1)

\* list.remove(l): deletes the first occurrence
RemoveFirst(list, l) ==
    LET i == CHOOSE j \in 1..Len(list) :
                 list[j] = l /\ \A k \in 1..(j - 1) : list[k] # l
    IN  SubSeq(list, 1, i - 1) \o SubSeq(list, i + 1, Len(list))

\* a variant that always replaces the bucket (loses the listeners it held)
add_listener_overwrite(al, l, name) == Put(al, name, <<l>>)

add_listener(al, l, name) ==
    IF Truthy(al, name) THEN Put(al, name, Append(al[name], l))
    ELSE Put(al, name, <<l>>)

\* a variant that returns normally when the listener is not in its bucket
remove_listener_silent(al, l, name) ==
    IF Truthy(al, name) /\ InList(al[name], l)
    THEN [al |-> Put(al, name, RemoveFirst(al[name], l)), err |-> "None"]
    ELSE [al |-> al, err |-> "None"]

\* the registry afterwards and the exception raised ("None": returned)
remove_listener(al, l, name) ==
    IF Truthy(al, name)
    THEN IF InList(al[name], l)
         THEN [al |-> Put(al, name, RemoveFirst(al[name], l)), err |-> "None"]
         ELSE [al |-> al, err |-> "ValueError"]
    ELSE [al |-> al, err |-> "KeyError"]

Registered(l) ==
    \E k \in DOMAIN active_listeners : InList(active_listeners[k], l)

\* Python's None, where a value of a call (a tuple) is expected
None == <<>>

\* SingleDispatchEventListener.__init__ / MultiDispatchEventListener.__init__
NewListener(kind, name, coro) ==
    [kind |-> kind, event_name |-> name, coro |-> coro, dispatched |-> FALSE,
     event_data |-> None, args |-> None, kwargs |-> None, called_with |-> None]

\* The coroutine kinds a caller passes: an async function, a plain function, nothing
Coros == {"coro", "func", "None"}

\* The coroutines handed to the registration methods: an async function or nothing
ListenerCoros == {"coro", "None"}

\* The names callers register listeners with
Names == { <<"ready">>, <<"foo">> }

\* The names callers dispatch and wait with
DispatchNames == { <<"ready">>, <<"on_", "ready">> }

\* The names of the functions given to the event decorator
CoroNames == { <<"on_", "ready">>, <<"on_", "foo">>, <<"on_", "connecti", "on_", "start">> }

Init ==
    /\ listeners = <<>>
    /\ active_listeners = <<>>
    /\ dispatches = <<>>
    /\ waiters = <<>>
    /\ lastCall = "None"
    /\ unregistered = {}
    /\ open = FALSE
    /\ ready = FALSE
    /\ connection_start = FALSE
    /\ houses = {}
    /\ stack = <<>>
    /\ loop = "running"
    /\ nrecv = 0
    /\ handled = <<>>
    /\ delivered = <<>>
    /\ notified = <<>>
    /\ active = FALSE
    /\ task = 0
    /\ runs = <<>>
    /\ sends = <<>>
    /\ stopped = FALSE
    /\ auth = [write |-> "None", result |-> "None"]

(***************************************************************************)
(* Registration.                                                           *)
(***************************************************************************)
\* add_new_multi_event_listener / add_new_single_event_listener: the bucket is
\* created when missing, then the listener's constructor calls add_listener
AddNew(kind, event_name, coro) ==
    LET name == Replace(event_name)
        al0  == IF name \in DOMAIN active_listeners THEN active_listeners
                ELSE Put(active_listeners, name, <<>>)
        l    == Len(listeners) + 1
    IN  /\ listeners' = Append(listeners, NewListener(kind, name, coro))
        /\ active_listeners' = add_listener(al0, l, name)

add_new_multi_event_listener(event_name, coro) ==
    /\ Len(listeners) < MaxListeners
    /\ AddNew("multi", event_name, coro)
    /\ lastCall' = "None"
    /\ UNCHANGED <<dispatches, waiters, unregistered>>

add_new_single_event_listener(event_name, coro) ==
    AddNew("single", event_name, coro)

\* HivenEventHandler.event(coro): the decorator
event(coro_name, coro) ==
    /\ Len(listeners) < MaxListeners
    /\ IF coro # "coro"
       THEN /\ lastCall' = "ExpectedAsyncFunction"
            /\ UNCHANGED <<listeners, active_listeners>>
       ELSE IF Replace(coro_name) \notin events
       THEN /\ lastCall' = "UnknownEventError"
            /\ UNCHANGED <<listeners, active_listeners>>
       ELSE /\ AddNew("multi", Replace(coro_name), coro)
            /\ lastCall' = "None"
    /\ UNCHANGED <<dispatches, waiters, unregistered>>

\* a caller's remove_listener(client, listener) on a listener it holds
RemoveListener(l) ==
    LET r == remove_listener(active_listeners, l, listeners[l].event_name)
    IN  /\ active_listeners' = r.al
        /\ lastCall' = r.err
        /\ unregistered' = unregistered \cup {l}
        /\ UNCHANGED <<listeners, dispatches, waiters>>

(***************************************************************************)
(* Dispatch.  HivenEventHandler.dispatch builds one coroutine per listener *)
(* of the bucket and awaits asyncio.gather on them: gather wraps each in a *)
(* task, the tasks run interleaved with every other task of the loop, and  *)
(* a listener coroutine is suspended wherever its callback awaits.         *)
(*   task[i]   : "created" (not yet run), "running" (suspended inside the  *)
(*               callback), "finished" (returned or raised)                *)
(*   exc       : the first exception a task ended with, which gather       *)
(*               raises to the caller of dispatch ("None": no task failed) *)
(*   cb_raised : some callback of this dispatch raised an Exception        *)
(*   status    : "running", "returned" or "raised": the dispatch call      *)
(***************************************************************************)
\* the arguments of the d-th dispatch call: opaque values, distinct per call
PayloadOf(d) == <<"event_data", d>>
ArgsOf(d)    == <<"args", d>>
KwargsOf(d)  == <<"kwargs", d>>

\* a variant that leaves out the first listener of the bucket
SnapshotOf_skips_first(al, event_name) ==
    LET name == Replace(event_name)
    IN  IF Truthy(al, name) THEN SubSeq(al[name], 2, Len(al[name])) ELSE <<>>

\* events = self.active_listeners.get(event_name.replace('on_', '')); if events: ...
SnapshotOf(al, event_name) ==
    LET name == Replace(event_name)
    IN  IF Truthy(al, name) THEN al[name] ELSE <<>>

\* dispatch up to `await asyncio.gather(*tasks)`; with no listener it returns at once
DispatchStart(event_name) ==
    LET snap == SnapshotOf(active_listeners, event_name)
    IN  /\ Len(dispatches) < MaxDispatch
        /\ dispatches' = Append(dispatches,
              [event     |-> Replace(event_name),
               snapshot  |-> snap,
               task      |-> [i \in 1..Len(snap) |-> "created"],
               exc       |-> "None",
               cb_raised |-> FALSE,
               status    |-> IF snap = <<>> THEN "returned" ELSE "running"])
        /\ UNCHANGED <<listeners, active_listeners, waiters, lastCall, unregistered>>

\* what the listener records before its callback is called: lines 125-129
Recorded(L, d) ==
    IF L.kind = "single"
    THEN IF L.coro = "coro"
         THEN [L EXCEPT !.event_data = PayloadOf(d), !.args = ArgsOf(d),
                        !.kwargs = KwargsOf(d)]
         ELSE [L EXCEPT !.event_data = PayloadOf(d)]
    ELSE L

\* a variant that passes the payload first
coro_call_with_payload(event_data, args, kwargs) == <<event_data, args, kwargs>>

\* self.coro(*args, **kwargs), lines 130 and 181: what the callback is called with
coro_call(event_data, args, kwargs) == <<args, kwargs>>

\* the listener with the arguments of its callback's latest call (called_with)
Called(L, d) ==
    IF L.coro = "coro"
    THEN [L EXCEPT !.called_with = coro_call(PayloadOf(d), ArgsOf(d), KwargsOf(d))]
    ELSE L

Finished(d, i, outcome, err) ==
    [dispatches EXCEPT ![d].task[i] = "finished",
                       ![d].exc = IF @ = "None" THEN err ELSE @,
                       ![d].cb_raised = @ \/ (outcome = "exc")]

\* a variant with lines 136-137 inside the try: skipped when the callback raises
after_callback_inside_try(ls, d, i, outcome) ==
    LET l == dispatches[d].snapshot[i]
        r == remove_listener(active_listeners, l, ls[l].event_name)
    IN  IF ls[l].kind = "single" /\ outcome # "exc"
        THEN /\ listeners' = [ls EXCEPT ![l].dispatched = TRUE]
             /\ active_listeners' = r.al
             /\ dispatches' = Finished(d, i, outcome, r.err)
        ELSE /\ listeners' = ls
             /\ active_listeners' = active_listeners
             /\ dispatches' = Finished(d, i, outcome, "None")

\* the rest of the listener's dispatch once its callback has returned ("ok"), has
\* raised an Exception ("exc", caught and logged) or was not called ("none"):
\* SingleDispatchEventListener lines 131-138, MultiDispatchEventListener 182-187
after_callback(ls, d, i, outcome) ==
    LET l == dispatches[d].snapshot[i]
        r == remove_listener(active_listeners, l, ls[l].event_name)
    IN  IF ls[l].kind = "single"
        THEN /\ listeners' = [ls EXCEPT ![l].dispatched = TRUE]
             /\ active_listeners' = r.al
             /\ dispatches' = Finished(d, i, outcome, r.err)
        ELSE /\ listeners' = ls
             /\ active_listeners' = active_listeners
             /\ dispatches' = Finished(d, i, outcome, "None")

\* the first step of a listener's task: up to the callback's first suspension,
\* or to the end when the callback does not suspend or there is none to call
TaskStart(d, i, behaviour) ==
    LET l  == dispatches[d].snapshot[i]
        ls == [listeners EXCEPT ![l] = Called(Recorded(@, d), d)]
    IN  /\ dispatches[d].task[i] = "created"
        /\ IF listeners[l].coro # "coro"
           THEN /\ behaviour = "none"
                /\ after_callback(ls, d, i, "none")
           ELSE \/ /\ behaviour = "suspend"
                   /\ listeners' = ls
                   /\ dispatches' = [dispatches EXCEPT ![d].task[i] = "running"]
                   /\ UNCHANGED active_listeners
                \/ /\ behaviour \in {"ok", "exc"}
                   /\ after_callback(ls, d, i, behaviour)
        /\ UNCHANGED <<waiters, lastCall, unregistered>>

\* the callback resumes and ends: it returns ("ok") or raises an Exception ("exc")
TaskResume(d, i, outcome) ==
    /\ dispatches[d].task[i] = "running"
    /\ after_callback(listeners, d, i, outcome)
    /\ UNCHANGED <<waiters, lastCall, unregistered>>

\* await asyncio.gather(*tasks) ends: with the first exception of a task as soon as
\* one has failed (every task has had its first step by then: the loop runs them
\* in creation order before it resumes the awaiting caller), else when all are done
DispatchEnd(d) ==
    LET D == dispatches[d]
        n == Len(D.snapshot)
    IN  /\ D.status = "running"
        /\ \A i \in 1..n : D.task[i] # "created"
        /\ IF D.exc # "None"
           THEN dispatches' = [dispatches EXCEPT ![d].status = "raised"]
           ELSE /\ \A i \in 1..n : D.task[i] = "finished"
                /\ dispatches' = [dispatches EXCEPT ![d].status = "returned"]
        /\ UNCHANGED <<listeners, active_listeners, waiters, lastCall, unregistered>>

(***************************************************************************)
(* wait_for: registers a one-shot listener and polls its dispatched flag.  *)
(***************************************************************************)
WaitForStart(event_name, coro) ==
    /\ Len(listeners) < MaxListeners
    /\ add_new_single_event_listener(Replace(event_name), coro)
    /\ waiters' = Append(waiters,
          [listener |-> Len(listeners) + 1, status |-> "waiting", ret |-> None])
    /\ lastCall' = "None"
    /\ UNCHANGED <<dispatches, unregistered>>

\* one turn of `while not listener.dispatched: await asyncio.sleep(.05)` that leaves
\* the loop, and the return statement
WaitForReturn(w) ==
    LET L == listeners[waiters[w].listener]
    IN  /\ waiters[w].status = "waiting"
        /\ L.dispatched
        /\ waiters' = [waiters EXCEPT ![w].status = "returned",
                                      ![w].ret = <<L.args, L.kwargs>>]
        /\ UNCHANGED <<listeners, active_listeners, dispatches, lastCall, unregistered>>

\* the task awaiting wait_for is cancelled while it sleeps in the polling loop:
\* CancelledError is raised at `await asyncio.sleep(.05)` (line 258) and leaves
\* wait_for, which has no except or finally clause
WaitForCancel(w) ==
    /\ waiters[w].status = "waiting"
    /\ waiters' = [waiters EXCEPT ![w].status = "cancelled"]
    /\ UNCHANGED <<listeners, active_listeners, dispatches, lastCall, unregistered>>

(***************************************************************************)
(* The websocket.  A transport message is [type, op, e, d]: the aiohttp    *)
(* message type and, for a message carrying a frame, the frame's op code,  *)
(* event name and payload.  The payload of INIT_STATE is abstracted to     *)
(* the number of entries of d['house_memberships'], the payload of         *)
(* HOUSE_JOIN to the house's id; other payloads are opaque (0).            *)
(***************************************************************************)
OP_EVENT            == 0
OP_CONNECTION_START == 1
OP_AUTH             == 2
OP_HEARTBEAT        == 3
OP_UNKNOWN          == 7     \* an op code HivenWebSocket.OPCode does not define

Frame(op, e, d) == [op |-> op, e |-> e, d |-> d]

Frames ==
    { Frame(OP_CONNECTION_START, "None", 0),
      Frame(OP_EVENT, "MESSAGE_CREATE", 0),
      Frame(OP_UNKNOWN, "None", 0),
      Frame(OP_UNKNOWN, "HOUSE_JOIN", 1) }
    \cup { Frame(OP_EVENT, "INIT_STATE", k) : k \in 1..MaxHouses }
    \cup { Frame(OP_EVENT, "HOUSE_JOIN", h) : h \in 1..MaxHouses }

Msg(type, f) == [type |-> type, op |-> f.op, e |-> f.e, d |-> f.d]

\* what socket.receive() can return
Messages ==
    { Msg("TEXT", f) : f \in Frames }
    \cup { Msg("BINARY", Frame(OP_EVENT, "MESSAGE_CREATE", 0)) }
    \cup { Msg(t, Frame(OP_UNKNOWN, "None", 0)) :
              t \in {"CLOSE", "CLOSING", "CLOSED", "ERROR", "PING"} }

\* extract_event
extract_event(m) == <<m.op, m.e, m.d>>

\* client.storage.update_all(data): the manifest's own entries are upserted; the
\* houses themselves arrive with the HOUSE_JOIN events
update_all(hs, data) == hs

\* client.storage.add_or_update_house(d)
add_or_update_house(hs, d) == hs \cup {d}

\* a variant that leaves the loop one house early
LoopExits_one_early(exp, known) == known + 1 >= exp

\* the negation of `while len(house_memberships) != len(self.client.storage['houses'])`
LoopExits(exp, known) == exp = known

\* client.call_listeners(name): the listeners of the bucket are called
call_listeners(name) ==
    [event |-> name, known |-> Cardinality(houses),
     exp |-> IF name = <<"ready">> THEN stack[Len(stack)].exp ELSE 0,
     invoked |-> SnapshotOf(active_listeners, name)]

\* a variant without the while loop
InitCall_skips_wait(exp, known) ==
    [exp |-> exp, buf |-> <<>>, phase |-> "replay", i |-> 1]

\* a call of received_init in progress: the manifest's house count, the
\* additional_events list, whether the while loop has been left, and the index of
\* the next additional event to hand to received_message
InitCall(exp, known) ==
    [exp |-> exp, buf |-> <<>>,
     phase |-> IF LoopExits(exp, known) THEN "replay" ELSE "wait", i |-> 1]

Stamped(n, m) == [seq |-> n, op |-> m.op, e |-> m.e, d |-> m.d]

\* received_message(msg), called with the read loop's stack `st` of received_init
\* calls, from listening_loop ("live") or from received_init's replay ("replay"):
\* up to its return, or into received_init up to the while loop
received_message(st, m, via) ==
    /\ handled' = Append(handled, m.seq)
    /\ IF m.op = OP_CONNECTION_START
       THEN /\ connection_start' = TRUE
            /\ open' = TRUE
            /\ stack' = st
            /\ UNCHANGED <<houses, delivered, notified>>
       ELSE IF m.op = OP_EVENT
       THEN IF m.e = "INIT_STATE"
            THEN /\ notified' = Append(notified, call_listeners(<<"init">>))
                 /\ houses' = update_all(houses, m.d)
                 /\ stack' = Append(st, InitCall(m.d, Cardinality(houses')))
                 /\ UNCHANGED <<connection_start, open, delivered>>
            ELSE /\ delivered' = Append(delivered,
                       [seq |-> m.seq, e |-> m.e, via |-> via, ready |-> ready,
                        notified |-> \E k \in 1..Len(notified) :
                                        notified[k].event = <<"ready">>,
                        known |-> Cardinality(houses),
                        exp |-> IF via = "replay" THEN st[Len(st)].exp ELSE 0])
                 /\ stack' = st
                 /\ UNCHANGED <<connection_start, open, houses, notified>>
       ELSE /\ stack' = st
            /\ UNCHANGED <<connection_start, open, houses, delivered, notified>>

\* an exception leaves every received_init call and ends listening_loop
Raise(err) ==
    /\ loop' = err
    /\ stack' = <<>>

\* listening_loop's wait_for_event(): one message, handled by received_message
ReceiveLive(m) ==
    /\ loop = "running"
    /\ stack = <<>>
    /\ nrecv < MaxFrames
    /\ nrecv' = nrecv + 1
    /\ IF m.type = "TEXT"
       THEN /\ received_message(stack, Stamped(nrecv + 1, m), "live")
            /\ UNCHANGED <<loop, ready>>
       ELSE IF m.type \in {"CLOSE", "CLOSING"}
       THEN /\ Raise("RestartSessionError")
            /\ UNCHANGED <<open, ready, connection_start, houses, handled, delivered,
                           notified>>
       ELSE IF m.type = "CLOSED"
       THEN /\ open' = FALSE
            /\ Raise("WebSocketClosedError")
            /\ UNCHANGED <<ready, connection_start, houses, handled, delivered, notified>>
       ELSE IF m.type = "ERROR"
       THEN /\ Raise("WebSocketClosedError")
            /\ UNCHANGED <<open, ready, connection_start, houses, handled, delivered,
                           notified>>
       ELSE \* BINARY (type(msg) is never bytes) and the other types: returns None
            UNCHANGED <<open, ready, connection_start, houses, stack, loop, handled,
                        delivered, notified>>
    /\ UNCHANGED <<evars, kvars>>

\* received_init's wait_for_event(handler=self.received_init_event): one message,
\* then the rest of the while loop's body and its condition
ReceiveInit(m) ==
    LET top == stack[Len(stack)]
        sm  == Stamped(nrecv + 1, m)
    IN  /\ loop = "running"
        /\ stack # <<>>
        /\ top.phase = "wait"
        /\ nrecv < MaxFrames
        /\ nrecv' = nrecv + 1
        /\ IF m.type = "TEXT"
           THEN LET ev == extract_event(m)
                    hs == IF ev[2] = "HOUSE_JOIN"
                          THEN add_or_update_house(houses, ev[3]) ELSE houses
                    bf == IF ev[2] = "HOUSE_JOIN" THEN top.buf ELSE Append(top.buf, sm)
                IN  /\ houses' = hs
                    /\ stack' = [stack EXCEPT ![Len(stack)] =
                          [top EXCEPT !.buf = bf,
                                      !.phase = IF LoopExits(top.exp, Cardinality(hs))
                                                THEN "replay" ELSE "wait"]]
                    /\ UNCHANGED <<open, loop>>
           ELSE IF m.type \in {"CLOSE", "CLOSING"}
           THEN /\ Raise("RestartSessionError")
                /\ UNCHANGED <<open, houses>>
           ELSE IF m.type = "CLOSED"
           THEN /\ open' = FALSE
                /\ Raise("WebSocketClosedError")
                /\ UNCHANGED houses
           ELSE IF m.type = "ERROR"
           THEN /\ Raise("WebSocketClosedError")
                /\ UNCHANGED <<open, houses>>
           ELSE \* wait_for_event returned None: ws_event.json() raises
                /\ Raise("AttributeError")
                /\ UNCHANGED <<open, houses>>
        /\ UNCHANGED <<ready, connection_start, handled, delivered, notified>>
        /\ UNCHANGED <<evars, kvars>>

\* one turn of `for event in additional_events: await self.received_message(event)`
ReplayStep ==
    LET top == stack[Len(stack)]
    IN  /\ loop = "running"
        /\ stack # <<>>
        /\ top.phase = "replay"
        /\ top.i <= Len(top.buf)
        /\ received_message([stack EXCEPT ![Len(stack)].i = top.i + 1], top.buf[top.i],
                            "replay")
        /\ UNCHANGED <<ready, loop, nrecv>>
        /\ UNCHANGED <<evars, kvars>>

\* received_init after the replay: lines 221-227
FinishInit ==
    LET top == stack[Len(stack)]
    IN  /\ loop = "running"
        /\ stack # <<>>
        /\ top.phase = "replay"
        /\ top.i > Len(top.buf)
        /\ IF ~connection_start
           THEN \* time.time() - None
                /\ Raise("TypeError")
                /\ UNCHANGED <<ready, notified>>
           ELSE /\ notified' = Append(notified, call_listeners(<<"ready">>))
                /\ ready' = TRUE
                /\ stack' = SubSeq(stack, 1, Len(stack) - 1)
                /\ UNCHANGED loop
        /\ UNCHANGED <<open, connection_start, houses, nrecv, handled, delivered>>
        /\ UNCHANGED <<evars, kvars>>

\* @client.event() applied to `async def on_ready()` before client.run()
RegisterOnReady ==
    /\ nrecv = 0
    /\ event(<<"on_", "ready">>, "coro")
    /\ UNCHANGED <<wvars, kvars>>

NextWS ==
    \/ RegisterOnReady
    \/ \E m \in Messages : ReceiveLive(m)
    \/ \E m \in Messages : ReceiveInit(m)
    \/ ReplayStep
    \/ FinishInit

SpecWS == Init /\ [][NextWS]_vars

(***************************************************************************)
(* The heartbeat.  KeepAlive.run is a coroutine its caller runs as a task; *)
(* every turn of its loop creates a task of its own for the send and then  *)
(* sleeps.  Nothing awaits a send task: its result or exception stays in   *)
(* the task object.                                                        *)
(*   runs[k]  : "sleep" (suspended in asyncio.sleep) or "returned"         *)
(*   sends[t] : by    - the run call that created the task                 *)
(*              state - "created" (not yet run), "sent", "cancelled", or   *)
(*                      the exception the task ended with                  *)
(*              after_stop    - the task ran while `stopped` was set       *)
(*              after_failure - a send task of the same run call had       *)
(*                              already failed when this one was created   *)
(***************************************************************************)
Failures == {"RestartSessionError", "TimeoutError"}

\* asyncio.create_task(asyncio.wait_for(self.ws.send_heartbeat(), 30)) by run call k
NewSend(k) ==
    [by |-> k, state |-> "created", after_stop |-> FALSE,
     after_failure |-> \E t \in 1..Len(sends) :
                          sends[t].by = k /\ sends[t].state \in Failures]

\* a variant whose loop tests only the controller's flag
LoopTurn_ignores_open(rs, k, act) ==
    IF act
    THEN /\ Len(sends) < MaxSends
         /\ sends' = Append(sends, NewSend(k))
         /\ task' = Len(sends) + 1
         /\ runs' = [rs EXCEPT ![k] = "sleep"]
    ELSE /\ runs' = [rs EXCEPT ![k] = "returned"]
         /\ UNCHANGED <<sends, task>>

\* one test of `while self.ws.open and self._active` by run call k, with _active
\* as `act`, and the loop's body up to the sleep, or the return
LoopTurn(rs, k, act) ==
    IF open /\ act
    THEN /\ Len(sends) < MaxSends
         /\ sends' = Append(sends, NewSend(k))
         /\ task' = Len(sends) + 1
         /\ runs' = [rs EXCEPT ![k] = "sleep"]
    ELSE /\ runs' = [rs EXCEPT ![k] = "returned"]
         /\ UNCHANGED <<sends, task>>

\* KeepAlive.run() starts: line 28 and the first turn of the loop
run ==
    /\ Len(runs) < MaxRuns
    /\ active' = TRUE
    /\ stopped' = FALSE
    /\ LoopTurn(Append(runs, "created"), Len(runs) + 1, TRUE)
    /\ UNCHANGED <<auth, evars, wvars>>

\* asyncio.sleep returns in run call k: the next turn of the loop
Wake(k) ==
    /\ runs[k] = "sleep"
    /\ LoopTurn(runs, k, active)
    /\ UNCHANGED <<active, stopped, auth, evars, wvars>>

\* the task of run call k is cancelled in its sleep: `except asyncio.CancelledError:
\* return`
CancelRun(k) ==
    /\ runs[k] = "sleep"
    /\ runs' = [runs EXCEPT ![k] = "returned"]
    /\ UNCHANGED <<active, task, sends, stopped, auth, evars, wvars>>

\* send task t runs: send_heartbeat writes the frame ("sent"), or send_str raises
\* and send_heartbeat raises RestartSessionError, or the 30 s of asyncio.wait_for
\* pass and the task ends with TimeoutError
send_heartbeat(t, outcome) ==
    /\ sends[t].state = "created"
    /\ sends' = [sends EXCEPT ![t].state = outcome, ![t].after_stop = stopped]
    /\ UNCHANGED <<active, task, runs, stopped, auth, evars, wvars>>

\* a variant of send_auth that raises what send_heartbeat raises
auth_result_restart(write) ==
    IF write = "ok" THEN "sent" ELSE "RestartSessionError"

\* what send_auth ends with when socket.send_str returns ("ok") or raises
\* ("failed"): lines 251-260
auth_result(write) ==
    IF write = "ok" THEN "sent" ELSE "SessionCreateError"

\* HivenWebSocket.send_auth(), called once per connection
send_auth(write) ==
    /\ auth.write = "None"
    /\ auth' = [write |-> write, result |-> auth_result(write)]
    /\ UNCHANGED <<active, task, runs, sends, stopped, evars, wvars>>

\* Task.cancel(): a task that has not run yet is cancelled, a finished one is left
Cancel(ss, t) ==
    IF ss[t].state = "created" THEN [ss EXCEPT ![t].state = "cancelled"] ELSE ss

\* KeepAlive.stop(): cancel() is called only on a task that is already cancelled
stop ==
    /\ sends' = IF task # 0 /\ sends[task].state = "cancelled"
                THEN Cancel(sends, task) ELSE sends
    /\ active' = FALSE
    /\ task' = 0
    /\ stopped' = TRUE
    /\ UNCHANGED <<runs, auth, evars, wvars>>

\* received_message on CONNECTION_START: lines 178-180
ConnectionOpened ==
    /\ ~open
    /\ open' = TRUE
    /\ connection_start' = TRUE
    /\ UNCHANGED <<ready, houses, stack, loop, nrecv, handled, delivered, notified>>
    /\ UNCHANGED <<evars, kvars>>

\* wait_for_event on a CLOSED message: line 158
ConnectionClosed ==
    /\ open
    /\ open' = FALSE
    /\ UNCHANGED <<ready, connection_start, houses, stack, loop, nrecv, handled,
                   delivered, notified>>
    /\ UNCHANGED <<evars, kvars>>

NextKA ==
    \/ run
    \/ \E k \in 1..Len(runs) : Wake(k)
    \/ \E k \in 1..Len(runs) : CancelRun(k)
    \/ \E t \in 1..Len(sends) : \E o \in {"sent"} \cup Failures : send_heartbeat(t, o)
    \/ stop
    \/ \E w \in {"ok", "failed"} : send_auth(w)
    \/ ConnectionOpened
    \/ ConnectionClosed

SpecKA == Init /\ [][NextKA]_vars

\* the calls a user of the event handler makes, and the steps of the tasks
RegisterMulti(n, c) == add_new_multi_event_listener(n, c) /\ UNCHANGED <<wvars, kvars>>
Decorate(n, c)      == event(n, c) /\ UNCHANGED <<wvars, kvars>>
Remove(l)           == RemoveListener(l) /\ UNCHANGED <<wvars, kvars>>
Dispatch(n)         == DispatchStart(n) /\ UNCHANGED <<wvars, kvars>>
StartTask(d, i, b)  == TaskStart(d, i, b) /\ UNCHANGED <<wvars, kvars>>
ResumeTask(d, i, o) == TaskResume(d, i, o) /\ UNCHANGED <<wvars, kvars>>
EndDispatch(d)      == DispatchEnd(d) /\ UNCHANGED <<wvars, kvars>>
WaitFor(n, c)       == WaitForStart(n, c) /\ UNCHANGED <<wvars, kvars>>
WaitForDone(w)      == WaitForReturn(w) /\ UNCHANGED <<wvars, kvars>>
CancelWaitFor(w)    == WaitForCancel(w) /\ UNCHANGED <<wvars, kvars>>

NextE ==
    \/ \E n \in Names, c \in ListenerCoros : RegisterMulti(n, c)
    \/ \E n \in CoroNames, c \in Coros : Decorate(n, c)
    \/ \E l \in 1..Len(listeners) : Remove(l)
    \/ \E n \in DispatchNames : Dispatch(n)
    \/ \E d \in 1..Len(dispatches) : \E i \in 1..Len(dispatches[d].snapshot) :
          \E b \in {"none", "suspend", "ok", "exc"} : StartTask(d, i, b)
    \/ \E d \in 1..Len(dispatches) : \E i \in 1..Len(dispatches[d].snapshot) :
          \E o \in {"ok", "exc"} : ResumeTask(d, i, o)
    \/ \E d \in 1..Len(dispatches) : EndDispatch(d)
    \/ \E n \in DispatchNames, c \in ListenerCoros : WaitFor(n, c)
    \/ \E w \in 1..Len(waiters) : WaitForDone(w)
    \/ \E w \in 1..Len(waiters) : CancelWaitFor(w)

Spec == Init /\ [][NextE]_vars
(***************************************************************************)
(* The event names.  SpecNames applies the event decorator to a callback   *)
(* named 'on_' + N for every N of HivenEventHandler._events, and           *)
(* dispatches the registered events under both forms of their names.       *)
(***************************************************************************)
\* the string of a name
RECURSIVE Str(_)
Str(s) == IF s = <<>> THEN "" ELSE Head(s) \o Str(Tail(s))

\* 'on_' + N
Prefixed(N) == <<"on_">> \o N

\* @client.event() on `async def on_<N>`
DecorateSupported(N) == event(Prefixed(N), "coro") /\ UNCHANGED <<wvars, kvars>>

\* dispatch(N) or dispatch('on_' + N) for an event that has listeners
DispatchSupported(n) ==
    /\ Truthy(active_listeners, Replace(n))
    /\ DispatchStart(n)
    /\ UNCHANGED <<wvars, kvars>>

NextNames ==
    \/ \E N \in events : DecorateSupported(N)
    \/ \E N \in events : DispatchSupported(N)
    \/ \E N \in events : DispatchSupported(Prefixed(N))
    \/ \E d \in 1..Len(dispatches) : \E i \in 1..Len(dispatches[d].snapshot) :
          StartTask(d, i, "ok")
    \/ \E d \in 1..Len(dispatches) : EndDispatch(d)

SpecNames == Init /\ [][NextNames]_vars

(***************************************************************************)
(* Claims about the event handler (Spec).                                  *)
(***************************************************************************)
Singles == { l \in 1..Len(listeners) : listeners[l].kind = "single" }
Multis  == { l \in 1..Len(listeners) : listeners[l].kind = "multi" }

\* the tasks (dispatch, position) that have called the callback of listener l
CallsOf(l) ==
    { t \in { <<d, i>> : d \in 1..Len(dispatches), i \in 1..MaxListeners } :
         /\ t[2] <= Len(dispatches[t[1]].snapshot)
         /\ dispatches[t[1]].snapshot[t[2]] = l
         /\ dispatches[t[1]].task[t[2]] # "created"
         /\ listeners[l].coro = "coro" }

\* C4 (the claim as stated): the callback of a single listener is called at most
\* once, whatever the interleaving of the dispatches of its event.
C4_SingleCalledAtMostOnce ==
    \A l \in Singles : Cardinality(CallsOf(l)) <= 1

\* C5: once a dispatch has returned to its caller, every single listener of its
\* snapshot is absent from the registry and has its dispatched flag set, whether
\* its callback returned, raised or was absent.
C5_SinglesGoneAfterDispatch ==
    \A d \in 1..Len(dispatches) :
       dispatches[d].status = "returned" =>
          \A i \in 1..Len(dispatches[d].snapshot) :
             LET l == dispatches[d].snapshot[i]
             IN  l \in Singles => ~Registered(l) /\ listeners[l].dispatched

\* C5 witness: a dispatch to a single listener whose callback raised has returned
C5_Witness ==
    \E d \in 1..Len(dispatches) :
       /\ dispatches[d].status = "returned"
       /\ dispatches[d].cb_raised
       /\ \E i \in 1..Len(dispatches[d].snapshot) :
             dispatches[d].snapshot[i] \in Singles

\* C6 (the claim as stated): a dispatch in which a callback raised has called every
\* listener of its snapshot and ends by returning, not by raising to its caller.
C6_RaisingCallbackIsolated ==
    \A d \in 1..Len(dispatches) :
       (dispatches[d].cb_raised /\ dispatches[d].status # "running") =>
          /\ dispatches[d].status = "returned"
          /\ \A i \in 1..Len(dispatches[d].snapshot) :
                dispatches[d].task[i] # "created"

CountIn(list, l) == Cardinality({ i \in 1..Len(list) : list[i] = l })

\* C7: every multi listener registered and not yet removed is held exactly once,
\* in the bucket of its event name and in no other; a removed one is held nowhere.
C7_RegistryMatchesCalls ==
    \A l \in Multis :
       /\ l \notin unregistered => Truthy(active_listeners, listeners[l].event_name)
       /\ \A k \in DOMAIN active_listeners :
             CountIn(active_listeners[k], l) =
                IF k = listeners[l].event_name /\ l \notin unregistered THEN 1 ELSE 0

\* C7 witness: of two multi listeners of one event the first was removed and the
\* second is registered
C7_Witness ==
    /\ Len(listeners) = 2
    /\ Multis = {1, 2}
    /\ listeners[1].event_name = listeners[2].event_name
    /\ unregistered = {1}
    /\ active_listeners[listeners[2].event_name] = <<2>>

\* C8: remove_listener on a listener that is not registered raises and leaves the
\* registry as it was.
C8_RemoveAbsentFails ==
    [][\A l \in 1..Len(listeners) :
          (~Registered(l) /\ RemoveListener(l)) =>
             (lastCall' # "None" /\ active_listeners' = active_listeners)]_vars

\* C8 witness: removing a one-shot listener that has fired raised KeyError
C8_Witness ==
    /\ lastCall = "KeyError"
    /\ \E l \in Singles : listeners[l].dispatched /\ l \in unregistered

\* the bucket names of the supported events
Supported == events \cup { Replace(e) : e \in events }

\* C9 (the claim as stated): no persistent listener is registered under a name
\* outside the supported events.
C9_UnknownNamesRejected ==
    \A l \in Multis : Registered(l) => listeners[l].event_name \in Supported

\* C10 (the claim as stated): a wait_for call that has returned returns the payload
\* and the positional and named arguments of a dispatch that called its listener.
C10_WaitForReturnsRecorded ==
    \A w \in 1..Len(waiters) :
       waiters[w].status = "returned" =>
          \E d \in 1..Len(dispatches) :
             /\ InList(dispatches[d].snapshot, waiters[w].listener)
             /\ \E i \in 1..Len(waiters[w].ret) : waiters[w].ret[i] = PayloadOf(d)
             /\ \E i \in 1..Len(waiters[w].ret) : waiters[w].ret[i] = ArgsOf(d)
             /\ \E i \in 1..Len(waiters[w].ret) : waiters[w].ret[i] = KwargsOf(d)

\* C11 (the claim as stated): the one-shot listener of a wait_for call that was
\* cancelled before its event was dispatched is in no bucket of the registry.
C11_CancelledWaitUnregisters ==
    \A w \in 1..Len(waiters) :
       (waiters[w].status = "cancelled" /\ ~listeners[waiters[w].listener].dispatched)
          => ~Registered(waiters[w].listener)

\* the listeners whose callback was called
WasCalled == { l \in 1..Len(listeners) : listeners[l].called_with # None }

\* C18 (the claim as stated): a callback is called with the payload of a dispatch
\* of its event, followed by that dispatch's positional and named arguments.
C18_CallbackGetsPayloadFirst ==
    \A l \in WasCalled :
       \E d \in 1..Len(dispatches) :
          /\ InList(dispatches[d].snapshot, l)
          /\ listeners[l].called_with = <<PayloadOf(d), ArgsOf(d), KwargsOf(d)>>

\* C18 (amended): a callback is called with the positional and named arguments of
\* a dispatch of its event and with nothing else: the payload is not passed to it
\* (a single listener keeps it in event_data).
C18_CallbackGetsArgsOnly ==
    \A l \in WasCalled :
       \E d \in 1..Len(dispatches) :
          /\ InList(dispatches[d].snapshot, l)
          /\ listeners[l].called_with = <<ArgsOf(d), KwargsOf(d)>>
          /\ l \in Singles => listeners[l].event_data \in
                                  { PayloadOf(e) : e \in 1..Len(dispatches) }

\* C18 witness: the callbacks of a multi and of a single listener were called
C18_Witness ==
    /\ WasCalled \cap Singles # {}
    /\ WasCalled \cap Multis # {}

\* C19 (the claim as stated), under SpecNames, where every decorated callback is
\* named 'on_' + N for a supported N: the decorator accepts the callback, and its
\* listener is in the bucket N.
C19_PrefixedSupportedNameAccepted ==
    /\ lastCall # "UnknownEventError"
    /\ \A l \in 1..Len(listeners) :
          /\ \E N \in events : listeners[l].event_name = <<Str(N)>>
          /\ Truthy(active_listeners, listeners[l].event_name)

\* the listeners registered for an event
Bucket(al, name) == IF name \in DOMAIN al THEN al[name] ELSE <<>>

\* C22: the listeners a dispatch invokes are those in the bucket of its event at
\* the step the dispatch starts, and stay the same while it runs; a callback is
\* called with the arguments of a dispatch only by a task of that dispatch, so a
\* listener registered later is not called with them.
C22_DispatchInvokesSnapshot ==
    [][/\ \A d \in 1..Len(dispatches') :
             IF d <= Len(dispatches)
             THEN dispatches'[d].snapshot = dispatches[d].snapshot
             ELSE dispatches'[d].snapshot =
                     Bucket(active_listeners, dispatches'[d].event)
       /\ \A l \in 1..Len(listeners) :
             listeners'[l].called_with # listeners[l].called_with =>
                \E d \in 1..Len(dispatches) :
                   \E i \in 1..Len(dispatches[d].snapshot) :
                      /\ dispatches[d].snapshot[i] = l
                      /\ dispatches[d].task[i] = "created"
                      /\ dispatches'[d].task[i] # "created"
                      /\ listeners'[l].called_with = <<ArgsOf(d), KwargsOf(d)>>]_vars

\* C22 witness: while a callback of a dispatch is suspended, a listener with a
\* callback is registered for the same event; it is not among the listeners of
\* that dispatch and was not called
C22_Witness ==
    \E d \in 1..Len(dispatches) : \E l \in 1..Len(listeners) :
       /\ dispatches[d].status = "running"
       /\ \E i \in 1..Len(dispatches[d].snapshot) : dispatches[d].task[i] = "running"
       /\ listeners[l].event_name = dispatches[d].event
       /\ listeners[l].coro = "coro"
       /\ Registered(l)
       /\ ~InList(dispatches[d].snapshot, l)
       /\ l \notin WasCalled

\* C23 (the claim as stated): when a dispatch has returned or raised, every task
\* of its listeners has finished.
C23_NoTaskOutlivesDispatch ==
    \A d \in 1..Len(dispatches) :
       dispatches[d].status # "running" =>
          \A i \in 1..Len(dispatches[d].snapshot) : dispatches[d].task[i] = "finished"

\* C24 (the claim as stated): a dispatch whose one-shot listener was removed by a
\* caller does not raise, the listener is absent afterwards, and the other
\* listeners of the bucket stay.
C24_CallerRemovalDoesNotFailDispatch ==
    \A d \in 1..Len(dispatches) :
       \A i \in 1..Len(dispatches[d].snapshot) :
          LET l == dispatches[d].snapshot[i]
          IN  (/\ l \in Singles
               /\ l \in unregistered
               /\ dispatches[d].task[i] = "finished") =>
                  /\ dispatches[d].exc = "None"
                  /\ ~Registered(l)
                  /\ \A m \in Multis : m \notin unregistered => Registered(m)

\* the positions of listener l in the snapshot of a dispatch
PositionsOf(D, l) == { i \in 1..Len(D.snapshot) : D.snapshot[i] = l }

\* C25: a dispatch leaves the multi listeners of the registry alone.  A dispatch
\* of e gets exactly one task for every multi listener registered for e; a task
\* that has started is never started again; when the dispatch call ends, every
\* one of them has been invoked; and a multi listener leaves the registry only
\* in a step in which remove_listener is called on it, whatever the one-shot
\* listeners of its bucket do
C25_DispatchKeepsMultiListeners ==
    [][/\ \A d \in 1..Len(dispatches') :
             LET D == dispatches'[d]
             IN  /\ d > Len(dispatches) =>
                       \A m \in Multis :
                          Cardinality(PositionsOf(D, m)) =
                             IF InList(Bucket(active_listeners, D.event), m) THEN 1 ELSE 0
                 /\ d <= Len(dispatches) =>
                       \A i \in 1..Len(D.snapshot) :
                          D.task[i] = "created" => dispatches[d].task[i] = "created"
                 /\ D.status # "running" =>
                       \A i \in 1..Len(D.snapshot) :
                          D.snapshot[i] \in Multis => D.task[i] # "created"
       /\ \A m \in Multis :
             (Registered(m) /\ ~Registered(m)') => m \in unregistered' \ unregistered
       /\ \A m \in Multis : m \notin unregistered => Registered(m)]_vars

\* C25 witness: a dispatch has returned in which a one-shot listener removed
\* itself and a multi listener of the same bucket was invoked and is still there
C25_Witness ==
    \E d \in 1..Len(dispatches) : \E s \in Singles : \E m \in Multis :
       /\ dispatches[d].status = "returned"
       /\ InList(dispatches[d].snapshot, s)
       /\ InList(dispatches[d].snapshot, m)
       /\ listeners[s].dispatched
       /\ ~Registered(s)
       /\ s \notin unregistered
       /\ m \in WasCalled
       /\ Registered(m)

(***************************************************************************)
(* Claims about the websocket (SpecWS).                                    *)
(***************************************************************************)
ReadyNotifications == { k \in 1..Len(notified) : notified[k].event = <<"ready">> }

\* C1: a coroutine named on_ready given to the event decorator is stored as a
\* persistent (multi) listener in the bucket 'ready'; once a received_init call has
\* returned (the ready flag is set) it has been called by a 'ready' notification;
\* and no 'ready' notification is issued while fewer houses are known than the
\* manifest of the notifying handshake lists.
C1_OnReadyCalledAtCompletion ==
    /\ \A l \in 1..Len(listeners) :
          /\ listeners[l].kind = "multi"
          /\ listeners[l].event_name = <<"ready">>
          /\ Truthy(active_listeners, <<"ready">>)
          /\ InList(active_listeners[<<"ready">>], l)
    /\ ready => \A l \in 1..Len(listeners) :
                   \E k \in ReadyNotifications : InList(notified[k].invoked, l)
    /\ \A k \in ReadyNotifications : notified[k].known >= notified[k].exp

\* C1 witness: the session is ready after a handshake that had to wait for a house,
\* and the registered on_ready listener was called
C1_Witness ==
    /\ ready
    /\ Len(listeners) >= 1
    /\ \E k \in ReadyNotifications :
          /\ notified[k].exp >= 1
          /\ InList(notified[k].invoked, 1)

StrictlyIncreasing(q) == \A i, j \in 1..Len(q) : i < j => q[i] < q[j]

\* C2 (the claim as stated): the frames are handed to received_message in the order
\* of their receipt (buffered ones before every frame received later), and no frame
\* buffered by a handshake that is still waiting for houses has been handed over.
C2_ReplayInReceiptOrder ==
    /\ StrictlyIncreasing(handled)
    /\ \A k \in 1..Len(stack) :
          stack[k].phase = "wait" =>
             \A b \in 1..Len(stack[k].buf) :
                \A h \in 1..Len(handled) : handled[h] # stack[k].buf[b].seq

Replayed == { k \in 1..Len(delivered) : delivered[k].via = "replay" }

C12_ReadyNotifiedOnce ==
    /\ Cardinality(ReadyNotifications) <= 1
    /\ ready => stack = <<>>

\* what ends listening_loop according to the classification of wait_for_event
Classified == {"RestartSessionError", "WebSocketClosedError"}

\* C16 (the claim as stated): a CLOSE or CLOSING message raises RestartSessionError,
\* a CLOSED message raises WebSocketClosedError and clears the open flag, an ERROR
\* message raises WebSocketClosedError, and the read loop ends by one of these
\* errors only.
C16_ReadLoopEndsByClassifiedError ==
    [][/\ \A m \in Messages :
             (ReceiveLive(m) \/ ReceiveInit(m)) =>
                /\ m.type \in {"CLOSE", "CLOSING"} => loop' = "RestartSessionError"
                /\ m.type = "CLOSED" => (loop' = "WebSocketClosedError" /\ ~open')
                /\ m.type = "ERROR" => loop' = "WebSocketClosedError"
       /\ loop' \in {"running"} \cup Classified]_vars

\* the message types by which the transport reports the end of the connection
Closing == {"CLOSE", "CLOSING", "CLOSED", "ERROR"}

\* C17 (the claim as stated): when the connection closes while a handshake waits
\* for houses, the handshake fails with SessionCreateError, the session does not
\* become ready, 'ready' is not notified and no buffered frame is delivered.
C17_CloseInHandshakeIsSessionCreateError ==
    [][\A m \in Messages :
          (m.type \in Closing /\ ReceiveInit(m)) =>
             /\ loop' = "SessionCreateError"
             /\ ready' = ready
             /\ notified' = notified
             /\ delivered' = delivered /\ handled' = handled]_vars

\* C20 (the claim as stated): an EVENT frame other than INIT_STATE that the read
\* loop receives after CONNECTION_START and before the session is ready is not
\* dispatched at its receipt.
C20_EventBeforeReadyIsBuffered ==
    [][\A m \in Messages :
          (/\ connection_start /\ ~ready
           /\ m.type = "TEXT" /\ m.op = OP_EVENT /\ m.e # "INIT_STATE"
           /\ ReceiveLive(m)) => delivered' = delivered]_vars

\* C21 (the claim as stated): a handshake waits for frames only while fewer houses
\* are known than its manifest lists.
C21_WaitsOnlyWhileFewerKnown ==
    \A k \in 1..Len(stack) :
       stack[k].phase = "wait" => Cardinality(houses) < stack[k].exp

\* the positions of the notifications of `name` in the order of call_listeners' calls
NotificationsOf(name) == { k \in 1..Len(notified) : notified[k].event = name }

\* C28: once CONNECTION_START was received the 'connection_start' listeners have
\* been notified, and every 'ready' notification (which needs the connection's
\* start time) comes after such a notification
C28_ConnectionStartNotified ==
    /\ connection_start => NotificationsOf(<<"connecti", "on_", "start">>) # {}
    /\ \A j \in NotificationsOf(<<"ready">>) :
          \E k \in NotificationsOf(<<"connecti", "on_", "start">>) : k < j

\* the text message that carries the frame of message m
TextOf(m) == [m EXCEPT !.type = "TEXT"]

\* C29: a step in which the read loop, or the handshake, receives a binary
\* message is also a step of receiving the text message with the same frame:
\* the same frame is handled, with the same session state and dispatches
C29_BinaryHandledAsText ==
    [][\A m \in Messages :
          m.type = "BINARY" =>
             /\ ReceiveLive(m) => ReceiveLive(TextOf(m))
             /\ ReceiveInit(m) => ReceiveInit(TextOf(m))]_vars

\* what a step leaves alone when it drops a frame: no error, no dispatch, no
\* notification, the flags and the storage as they were
Dropped ==
    /\ loop' = "running"
    /\ UNCHANGED <<open, ready, connection_start, houses, delivered, notified>>

\* C30: a text frame with an unknown op code changes nothing, whether the read
\* loop receives it in steady state, the handshake receives it (and buffers it)
\* or the handshake replays it
C30_UnknownOpChangesNothing ==
    [][/\ \A m \in Messages :
             (m.type = "TEXT" /\ m.op = OP_UNKNOWN) =>
                /\ ReceiveLive(m) => Dropped
                /\ ReceiveInit(m) =>
                      /\ Dropped
                      /\ stack'[Len(stack)].buf =
                            Append(stack[Len(stack)].buf, Stamped(nrecv + 1, m))
       /\ (/\ ReplayStep
           /\ stack[Len(stack)].buf[stack[Len(stack)].i].op = OP_UNKNOWN) => Dropped]_vars

\* C31: the session is never marked ready while the connection is marked not
\* open, and it is marked ready only when CONNECTION_START was received and
\* INIT_STATE was processed
C31_ReadyImpliesOpen ==
    /\ ready => open
    /\ ready => (connection_start /\ NotificationsOf(<<"init">>) # {})

\* C32: when the read loop has ended by a close, closed or error message, the
\* connection is marked not open (so that the heartbeat loop's test fails)
C32_EndedLoopMarksNotOpen ==
    loop \in {"RestartSessionError", "WebSocketClosedError"} => ~open

\* C33: a message that wait_for_event returns nothing for (binary, ping) and
\* that arrives while the handshake waits for houses raises no error and leaves
\* the handshake waiting as it was
C33_IgnoredMessageKeepsHandshake ==
    [][\A m \in Messages :
          m.type \in {"BINARY", "PING"} =>
             (ReceiveInit(m) =>
                 /\ loop' = "running"
                 /\ stack' = stack
                 /\ UNCHANGED <<open, ready, houses, delivered, notified>>)]_vars

(***************************************************************************)
(* Claims about the heartbeat (SpecKA).                                    *)
(***************************************************************************)
\* C13 (the claim as stated): no heartbeat frame is written after stop() has
\* returned (and before run() is called again).
C13_NoHeartbeatAfterStop ==
    \A t \in 1..Len(sends) : sends[t].state = "sent" => ~sends[t].after_stop

\* C14 (the claim as stated): after a send of a run call has failed or timed out,
\* that run call creates no further send: it ends with RestartSessionError.
C14_FailedSendEndsLoop ==
    \A t \in 1..Len(sends) : ~sends[t].after_failure

\* C15 (the claim as stated): at most one heartbeat loop is running.
C15_AtMostOneLoop ==
    Cardinality({ k \in 1..Len(runs) : runs[k] = "sleep" }) <= 1

\* the send tasks created by run call k
SendsOf(k) == { t \in 1..Len(sends) : sends[t].by = k }

\* C26: the heartbeat loop creates a send task only in a step in which the
\* connection is marked open (so CONNECTION_START was received) and the
\* controller is active, and only from a run call that is in its loop; a run
\* call that starts while the connection is not open returns without a send
C26_SendsOnlyWhileOpenAndActive ==
    [][/\ Len(sends') > Len(sends) =>
             /\ open /\ connection_start /\ active'
             /\ Len(sends') = Len(sends) + 1
             /\ LET k == sends'[Len(sends')].by
                IN  /\ runs'[k] = "sleep"
                    /\ k <= Len(runs) => runs[k] = "sleep"
       /\ Len(runs') > Len(runs) =>
             (~open => /\ runs'[Len(runs')] = "returned"
                       /\ sends' = sends)
       /\ \A k \in 1..Len(runs) : runs[k] = "returned" => runs'[k] = "returned"]_vars

\* C26 witness: a run call started while the connection was not open has returned
\* without a send, and a later one has sent a heartbeat on the open connection
C26_Witness ==
    \E k, j \in 1..Len(runs) :
       /\ runs[k] = "returned"
       /\ SendsOf(k) = {}
       /\ open
       /\ \E t \in SendsOf(j) : sends[t].state = "sent"

\* the exceptions of the heartbeat send tasks that did not end by the timeout
WriteFailures ==
    { sends[t].state : t \in 1..Len(sends) } \ {"created", "sent", "cancelled", "TimeoutError"}

\* C27 as stated: a failed write is always promoted to RestartSessionError, by
\* send_heartbeat and by send_auth
C27_WriteFailureIsRestartSessionError ==
    /\ WriteFailures \subseteq {"RestartSessionError"}
    /\ auth.write = "failed" => auth.result = "RestartSessionError"

\* C27 amended: a failed write is promoted to RestartSessionError by
\* send_heartbeat and to SessionCreateError by send_auth; a write that succeeds
\* raises nothing
C27_WriteFailurePromotedPerFrame ==
    /\ WriteFailures \subseteq {"RestartSessionError"}
    /\ auth.write = "failed" => auth.result = "SessionCreateError"
    /\ auth.write = "ok" => auth.result = "sent"

\* C27 witness: the write of the AUTH frame and the write of a heartbeat have failed
C27_Witness ==
    /\ auth.write = "failed"
    /\ WriteFailures # {}
====
